---- MODULE Spec2Model ----
(***************************************************************************)
(* A model of gtree.py: the person store (PERSONS), the relationship       *)
(* queries of GSPerson, the ancestor/descendant tree builder, the tree     *)
(* renderer, the text measurement (actuallen) and the commands of the      *)
(* shell that load files and request trees and profiles.                   *)
(*                                                                         *)
(* Python objects are modelled by their position in PERSONS (a GSPerson    *)
(* has no __eq__, so two records with equal fields are still two objects). *)
(* Python values that the code compares across types (an int id, a str     *)
(* token of a field, a GSPerson object) are tagged, so that a comparison   *)
(* between an int and a str or an object is False as it is in Python.      *)
(***************************************************************************)
EXTENDS Integers, Sequences, FiniteSets, TLC

VARIABLES
    PERSONS,          \* gtree.PERSONS: the list of GSPerson records
    EXTENDED_FIELDS,  \* gtree.EXTENDED_FIELDS: the GSField registry
    CLI_file,         \* CLI.file: "None" or "Document"
    FILENAME,         \* gtree.FILENAME: None or the name of the file
    ASCII,            \* gtree.ASCII
    OPTIONS,          \* gtree.OPTIONS: the glyph set built by setup_options
    state_data,       \* CLI._state_data
    state_name,       \* CLI._state_name
    ret,              \* what the last command returned (or the exception it raised)
    self,             \* the receiver of a relationship query (a position in PERSONS)
    res,              \* the result of the last relationship query
    string,           \* the argument of actuallen
    length            \* the result of actuallen

vars == <<PERSONS, EXTENDED_FIELDS, CLI_file, FILENAME, ASCII, OPTIONS,
          state_data, state_name, ret, self, res, string, length>>

cliVars == <<CLI_file, FILENAME, ASCII, OPTIONS, state_data, state_name, ret>>

-----------------------------------------------------------------------------
(* Bounds *)

\* person ids are 0..MaxId
MaxId == 2
\* a record lists at most MaxParents parent ids
MaxParents == 2
\* the store holds at most MaxStore records
MaxStore == 3
\* the argument of actuallen has at most MaxLen characters
MaxLen == 3
\* a file of a session has at most MaxDocLen sections
MaxDocLen == 1
\* the person sections of a session's files have ids 0..MaxFileId
MaxFileId == 1
\* and list at most MaxFileParents parent ids
MaxFileParents == 1
\* the ids their parent lists and person-list attributes name are 0..MaxRefId
MaxRefId == 0
\* a session loads at most MaxLoaded records
MaxLoaded == 2
\* a person-list attribute of a section holds at most MaxTokens tokens
MaxTokens == 1
\* a session registers at most MaxFields field sections
MaxFields == 1

-----------------------------------------------------------------------------
(* Values *)

\* Python's None, where the other values are integers
None == -1

\* the exceptions of the code: psx1.get_name() or person.get_name() on a None,
\* CLI.file.filename on a document, and the recursion limit
NoneHasNoName == "AttributeError: 'NoneType' object has no attribute 'get_name'"
NoFilenameAttr == "AttributeError: object has no attribute 'filename'"
Raised == {NoneHasNoName, NoFilenameAttr, "RecursionError"}

\* Tagged Python values: an int, a str and a GSPerson object never compare equal
PyInt(n) == [t |-> "int", v |-> n]
PyStr(n) == [t |-> "str", v |-> n]
PyObj(i) == [t |-> "GSPerson", v |-> i]

\* the attribute value of a person that has no such attribute
NoAttr == <<"NoAttr">>

Range(s) == {s[k] : k \in 1..Len(s)}

SeqsUpTo(S, n) == UNION {[1..k -> S] : k \in 0..n}

Positions == 1..Len(PERSONS)

\* `for person in PERSONS`: the positions of the store, in store order
EachPerson == [i \in Positions |-> i]

-----------------------------------------------------------------------------
(* Relationship queries of GSPerson *)

\* GSPerson.by_id: the first record whose id equals tid, or None
by_id(tid) ==
    LET hits == {i \in Positions : PyInt(PERSONS[i].id) = tid}
    IN  IF hits = {} THEN None
        ELSE CHOOSE i \in hits : \A j \in hits : i <= j

\* get_parents as a lookup of each listed id, in the order of the list
get_parents_as_listed(p) ==
    LET ids == PERSONS[p].parents
        loop[k \in 0..Len(ids)] ==
            IF k = 0 THEN <<>>
            ELSE IF by_id(PyInt(ids[k])) = None THEN loop[k - 1]
            ELSE Append(loop[k - 1], by_id(PyInt(ids[k])))
    IN  loop[Len(ids)]

\* GSPerson.get_parents
get_parents(p) ==
    SelectSeq(EachPerson, LAMBDA i : PERSONS[i].id \in Range(PERSONS[p].parents))

\* GSPerson.get_children
get_children(p) ==
    SelectSeq(EachPerson, LAMBDA i : PERSONS[p].id \in Range(PERSONS[i].parents))

\* GSPerson.get_siblings
get_siblings(p) ==
    IF PERSONS[p].parents = <<>> THEN <<>>
    ELSE SelectSeq(EachPerson,
                   LAMBDA i : /\ PERSONS[i].id # PERSONS[p].id
                              /\ PERSONS[i].parents = PERSONS[p].parents)

\* the inner loop of get_spouses: the last parent id of the child that is not
\* the person's own id, 0 when there is none
other_parent(child, p) ==
    LET ids    == PERSONS[child].parents
        others == {k \in 1..Len(ids) : ids[k] # PERSONS[p].id}
    IN  IF others = {} THEN 0
        ELSE ids[CHOOSE k \in others : \A m \in others : m <= k]

\* GSPerson.get_spouses
get_spouses(p) ==
    LET children == get_children(p)
        loop[k \in 0..Len(children)] ==
            IF k = 0 THEN <<>>
            ELSE LET spouse == by_id(PyInt(other_parent(children[k], p)))
                 IN  IF spouse = None \/ spouse \in Range(loop[k - 1])
                     THEN loop[k - 1]
                     ELSE Append(loop[k - 1], spouse)
    IN  loop[Len(children)]

-----------------------------------------------------------------------------
(* Extended fields *)

\* the initial value of EXTENDED_FIELDS
DefaultFields ==
    << [name |-> "PlaceOfBirth", show_in_tree |-> FALSE, array_persons |-> FALSE],
       [name |-> "PlaceOfDeath", show_in_tree |-> FALSE, array_persons |-> FALSE] >>

\* GSField.has_field: the record has an attribute of the field's name
has_field(field, p) == field.name \in DOMAIN PERSONS[p].ext

\* GSField.extract(person).split(' '): the tokens of the attribute's text
extract_split(field, p) == PERSONS[p].ext[field.name]

\* all_fields_for_person: the registered fields the record has, in registry order
all_fields_for_person(p) ==
    SelectSeq(EXTENDED_FIELDS, LAMBDA field : has_field(field, p))

-----------------------------------------------------------------------------
(* Building the tree: GSPerson._gen_dict, ancestor_tree, descendant_tree *)

\* A dict is a sequence of entries [key, sub] in insertion order; sub is the
\* dict under the key, and <<>> stands for the None of a person without
\* relatives (the code never stores an empty dict).

\* subdict[key] = val: a key already present keeps its place and gets the value
DictSet(d, key, val) ==
    IF \E k \in 1..Len(d) : d[k].key = key
    THEN [k \in 1..Len(d) |->
            IF d[k].key = key THEN [key |-> key, sub |-> val] ELSE d[k]]
    ELSE Append(d, [key |-> key, sub |-> val])

\* The interpreter's recursion limit.  A chain of distinct records is at most
\* Len(PERSONS) calls deep, so a deeper call has met a record twice and the
\* recursion would never end by itself: it ends with RecursionError.
RecursionLimit == Len(PERSONS)

\* _gen_dict with a depth limit: at the limit the person is taken as a leaf
RECURSIVE gen_dict_depth_limited(_, _, _)
gen_dict_depth_limited(person, fc, fuel) ==
    IF fuel = 0
    THEN [err |-> FALSE, id |-> PERSONS[person].id, sub |-> <<>>]
    ELSE
      LET parents == IF ~fc THEN get_parents(person) ELSE get_children(person)
          loop[k \in 0..Len(parents)] ==
              IF k = 0 THEN <<>>
              ELSE LET t == gen_dict_depth_limited(parents[k], fc, fuel - 1)
                   IN  DictSet(loop[k - 1], t.id, t.sub)
      IN  [err |-> FALSE,
           id  |-> PERSONS[person].id,
           sub |-> loop[Len(parents)]]

\* GSPerson._gen_dict(person, fc) with `fuel` frames left: [id, sub], or err
\* when the recursion limit is exceeded
RECURSIVE gen_dict(_, _, _)
gen_dict(person, fc, fuel) ==
    IF fuel = 0
    THEN [err |-> TRUE, id |-> PERSONS[person].id, sub |-> <<>>]
    ELSE
      LET parents == IF ~fc THEN get_parents(person) ELSE get_children(person)
          loop[k \in 0..Len(parents)] ==
              IF k = 0 THEN [err |-> FALSE, sub |-> <<>>]
              ELSE IF loop[k - 1].err THEN loop[k - 1]
              ELSE LET t == gen_dict(parents[k], fc, fuel - 1)
                   IN  IF t.err THEN [err |-> TRUE, sub |-> <<>>]
                       ELSE [err |-> FALSE,
                             sub |-> DictSet(loop[k - 1].sub, t.id, t.sub)]
      IN  [err |-> loop[Len(parents)].err,
           id  |-> PERSONS[person].id,
           sub |-> loop[Len(parents)].sub]

-----------------------------------------------------------------------------
(* Rendering: Graphics.LineDrawing, Diagram.getinfo, Diagram._convert,     *)
(* Tree._print                                                             *)

\* Graphics.LineDrawing(color, ascii).ITEMS; [2502], [2514], [251C] and
\* [2500] stand for the box-drawing characters U+2502, U+2514, U+251C, U+2500
\* and [0060] for the grave accent U+0060
LineDrawing(ascii) ==
    IF ~ascii
    THEN [PIPE  |-> "[2502]  ",
          ELBOW |-> "[2514][2500][2500]",
          TEE   |-> "[251C][2500][2500]",
          BLANK |-> "   "]
    ELSE [PIPE  |-> "|  ",
          ELBOW |-> "[0060]--",
          TEE   |-> "|--",
          BLANK |-> "   "]

\* dict.get(key, False) on the diagram's tree, as a truth value: the keys of
\* the tree are int ids
tree_get(tree, key) ==
    /\ \E k \in 1..Len(tree) : PyInt(tree[k].key) = key
    /\ \E k \in 1..Len(tree) : PyInt(tree[k].key) = key /\ tree[k].sub # <<>>

\* Diagram.getinfo(person, rootness): the info block of a node, or err when
\* the block raises AttributeError
getinfo(key, rootness, ancestor, tree) ==
    LET person == by_id(PyInt(key))
        fields == all_fields_for_person(person)
        shown  == SelectSeq(fields, LAMBDA f : f.show_in_tree)
        \* the loop at lines 619-620 leaves psx1 = by_id(person), the lookup
        \* of a GSPerson object among int ids
        psx1   == by_id(PyObj(person))
        line(f) ==
            IF f.array_persons
            THEN [label |-> f.name, persons |-> <<PERSONS[psx1].id>>]
            ELSE [label |-> f.name, text |-> PERSONS[person].ext[f.name]]
    IN  IF \E k \in 1..Len(shown) : shown[k].array_persons /\ psx1 = None
        THEN [err |-> TRUE]
        ELSE [err     |-> FALSE,
              id      |-> PERSONS[person].id,
              bg      |-> IF rootness = 0 THEN "BLUE" ELSE "DEFAULT",
              spouses |-> IF ~ancestor \/ tree_get(tree, PyObj(person))
                          THEN [k \in 1..Len(get_spouses(person)) |->
                                   PERSONS[get_spouses(person)[k]].id]
                          ELSE <<>>,
              fields  |-> [k \in 1..Len(shown) |-> line(shown[k])]]

\* _convert passing its own depth to the nested call instead of recurse+1
RECURSIVE convert_same_depth(_, _, _, _)
convert_same_depth(subdict, recurse, ancestor, tree) ==
    LET loop[k \in 0..Len(subdict)] ==
            IF k = 0 THEN [err |-> FALSE, list |-> <<>>]
            ELSE IF loop[k - 1].err THEN loop[k - 1]
            ELSE LET info == getinfo(subdict[k].key, recurse, ancestor, tree)
                     sub  == IF subdict[k].sub = <<>>
                             THEN [err |-> FALSE, list |-> <<>>]
                             ELSE convert_same_depth(subdict[k].sub, recurse,
                                                     ancestor, tree)
                 IN  IF info.err \/ sub.err THEN [err |-> TRUE, list |-> <<>>]
                     ELSE [err  |-> FALSE,
                           list |-> Append(loop[k - 1].list,
                                           [info |-> info, children |-> sub.list])]
    IN  loop[Len(subdict)]

\* Diagram._convert(subdict, recurse): the list of [info, children] pairs
RECURSIVE convert(_, _, _, _)
convert(subdict, recurse, ancestor, tree) ==
    LET loop[k \in 0..Len(subdict)] ==
            IF k = 0 THEN [err |-> FALSE, list |-> <<>>]
            ELSE IF loop[k - 1].err THEN loop[k - 1]
            ELSE LET info == getinfo(subdict[k].key, recurse, ancestor, tree)
                     sub  == IF subdict[k].sub = <<>>
                             THEN [err |-> FALSE, list |-> <<>>]
                             ELSE convert(subdict[k].sub, recurse + 1, ancestor, tree)
                 IN  IF info.err \/ sub.err THEN [err |-> TRUE, list |-> <<>>]
                     ELSE [err  |-> FALSE,
                           list |-> Append(loop[k - 1].list,
                                           [info |-> info, children |-> sub.list])]
    IN  loop[Len(subdict)]

\* _print handing its children the value of `lastcall` (last child, or the
\* parent is last) as their `last`
RECURSIVE print_lastcall(_, _, _)
print_lastcall(p, last, header) ==
    LET below == header \o <<IF last THEN OPTIONS.BLANK ELSE OPTIONS.PIPE>>
        kids  == p.children
        loop[i \in 0..Len(kids)] ==
            IF i = 0 THEN <<>>
            ELSE loop[i - 1]
                 \o print_lastcall(kids[i], i = Len(kids) \/ last, below)
    IN  << [header |-> header,
            conn   |-> IF last THEN OPTIONS.ELBOW ELSE OPTIONS.TEE,
            info   |-> p.info,
            cont   |-> below] >> \o loop[Len(kids)]

\* Tree._print(p, last, header): the lines appended to Tree.data, one per
\* node: the header, the connector, the info block and the header that
\* _newlines puts before the block's continuation lines
RECURSIVE print(_, _, _)
print(p, last, header) ==
    LET below == header \o <<IF last THEN OPTIONS.BLANK ELSE OPTIONS.PIPE>>
        kids  == p.children
        loop[i \in 0..Len(kids)] ==
            IF i = 0 THEN <<>>
            ELSE loop[i - 1] \o print(kids[i], i = Len(kids), below)
    IN  << [header |-> header,
            conn   |-> IF last THEN OPTIONS.ELBOW ELSE OPTIONS.TEE,
            info   |-> p.info,
            cont   |-> below] >> \o loop[Len(kids)]

\* Tree.gen: every root is printed with the defaults last=True, header=""
Tree_gen(lst) ==
    LET loop[i \in 0..Len(lst)] ==
            IF i = 0 THEN <<>> ELSE loop[i - 1] \o print(lst[i], TRUE, <<>>)
    IN  loop[Len(lst)]

\* GSPerson.ancestor_tree (fc = FALSE) and descendant_tree (fc = TRUE): the
\* text of the diagram, or the exception the call ends with
render_tree(p, fc) ==
    LET t    == gen_dict(p, fc, RecursionLimit)
        root == <<[key |-> PERSONS[p].id, sub |-> t.sub]>>
        lst  == convert(root, 0, ~fc, root)
    IN  IF t.err THEN [kind |-> "RecursionError"]
        ELSE IF lst.err THEN [kind |-> NoneHasNoName]
        ELSE [kind |-> "tree", tree |-> root, lines |-> Tree_gen(lst.list)]

ancestor_tree(p) == render_tree(p, FALSE)

descendant_tree(p) == render_tree(p, TRUE)

\* section_with_persons over a list of by_id results: add_person raises
\* AttributeError on a None
section_fails(persons) == \E k \in 1..Len(persons) : persons[k] = None

\* GSPerson.profile
profile(p) ==
    LET fields == all_fields_for_person(p)
        plain  == SelectSeq(fields, LAMBDA f : ~f.array_persons)
        lists  == SelectSeq(fields, LAMBDA f : f.array_persons)
        found(f) == [k \in 1..Len(extract_split(f, p)) |->
                        by_id(PyStr(extract_split(f, p)[k]))]
    IN  IF \E k \in 1..Len(lists) : section_fails(found(lists[k]))
        THEN [kind |-> NoneHasNoName]
        ELSE [kind     |-> "profile",
              id       |-> PERSONS[p].id,
              fields   |-> [k \in 1..Len(plain) |->
                              [label |-> plain[k].name,
                               text  |-> PERSONS[p].ext[plain[k].name]]],
              parents  |-> get_parents(p),
              children |-> get_children(p),
              siblings |-> get_siblings(p),
              spouses  |-> get_spouses(p),
              lists    |-> [k \in 1..Len(lists) |->
                              [label |-> lists[k].name, persons |-> found(lists[k])]]]

-----------------------------------------------------------------------------
(* Text measurement: actuallen *)

\* The characters the model draws from, one of each class the code tells
\* apart: the escape introducer, a letter, a digit, a punctuation mark, the
\* space, the tab, the four line controls and another control character.
Chars == {"ESC", "a", "1", "[", " ", "TAB", "CR", "LF", "FF", "VT", "BEL"}

\* str.isalpha
isalpha(c) == c = "a"

\* str.isprintable: no control character is printable, the tab and the line
\* controls included
isprintable(c) == c \in {"a", "1", "[", " "}

\* actuallen(string)
actuallen(s) ==
    LET loop[k \in 0..Len(s)] ==
            IF k = 0 THEN [length |-> 0, skipping |-> FALSE]
            ELSE LET each == s[k]
                     prev == loop[k - 1]
                 IN  IF prev.skipping
                     THEN [length   |-> prev.length,
                           skipping |-> ~isalpha(each)]
                     ELSE IF each = "ESC"
                     THEN [length |-> prev.length, skipping |-> TRUE]
                     ELSE IF ~isprintable(each) THEN prev
                     ELSE IF each \in {"CR", "LF", "FF", "VT"} THEN prev
                     ELSE IF each = "TAB"
                     THEN [length |-> prev.length + 8, skipping |-> FALSE]
                     ELSE [length |-> prev.length + 1, skipping |-> FALSE]
    IN  loop[Len(s)].length

-----------------------------------------------------------------------------
(* The state of a fresh process *)

NoResult == [op |-> "none"]

NoData == [kind |-> "None"]

NoReturn == [msg |-> "not run"]

FreshCLI ==
    /\ CLI_file = "None"
    /\ FILENAME = <<>>
    /\ ASCII = FALSE
    /\ OPTIONS = LineDrawing(FALSE)
    /\ state_data = NoData
    /\ state_name = <<>>
    /\ ret = NoReturn

-----------------------------------------------------------------------------
(* The relationship queries applied to a loaded store *)

ParentLists == SeqsUpTo(0..MaxId, MaxParents)

\* the records of a store: GSPerson.__init__ has split the Parents text into
\* the list of ints
Records == [id : 0..MaxId, parents : ParentLists, ext : {<<>>}]

\* the stores the queries are applied to: up to MaxStore records in any
\* order.  Two records may have the same id: open appends the records of a
\* file to PERSONS and nothing removes a record (see Open and Close).
Stores == SeqsUpTo(Records, MaxStore) \ {<<>>}

InitRel ==
    /\ PERSONS \in Stores
    /\ self \in 1..Len(PERSONS)
    /\ EXTENDED_FIELDS = DefaultFields
    /\ FreshCLI
    /\ res = NoResult
    /\ string = <<>>
    /\ length = None

\* one query of the receiver per run: the queries do not change the store
Query(op, out) ==
    /\ res = NoResult
    /\ res' = [op |-> op, out |-> out]
    /\ UNCHANGED <<PERSONS, EXTENDED_FIELDS, cliVars, self, string, length>>

GetParents == Query("get_parents", get_parents(self))

GetChildren == Query("get_children", get_children(self))

GetSiblings == Query("get_siblings", get_siblings(self))

GetSpouses == Query("get_spouses", get_spouses(self))

AncestorTree == Query("ancestor_tree", ancestor_tree(self))

DescendantTree == Query("descendant_tree", descendant_tree(self))

NextRel ==
    \/ GetParents
    \/ GetChildren
    \/ GetSiblings
    \/ GetSpouses
    \/ AncestorTree
    \/ DescendantTree

SpecRel == InitRel /\ [][NextRel]_vars

-----------------------------------------------------------------------------
(* actuallen applied to a string *)

InitLen ==
    /\ string \in SeqsUpTo(Chars, MaxLen)
    /\ length = None
    /\ PERSONS = <<>>
    /\ EXTENDED_FIELDS = DefaultFields
    /\ FreshCLI
    /\ self = None
    /\ res = NoResult

Measure ==
    /\ length' = actuallen(string)
    /\ UNCHANGED <<PERSONS, EXTENDED_FIELDS, cliVars, self, res, string>>

NextLen == Measure

SpecLen == InitLen /\ [][NextLen]_vars

-----------------------------------------------------------------------------
(* A session of the shell: CLICommands *)

\* the name of the extended field the files of a session declare and set
FieldName == "Friends"

\* the attributes a person section may set besides the defaults: none, or the
\* field, whose text is a space-separated list of ids (here: its tokens)
Exts ==
    {<<>>} \cup
    {[n \in {FieldName} |-> toks] :
        toks \in SeqsUpTo(0..MaxRefId, MaxTokens) \ {<<>>}}

\* the sections of a file: a numeric header (a person), a Gershwin:Field
\* header (a field) or any other header (bad)
Sections ==
    [kind : {"person"}, id : 0..MaxFileId,
     parents : SeqsUpTo(0..MaxRefId, MaxFileParents), ext : Exts]
    \cup [kind : {"field"}, name : {FieldName},
          show_in_tree : BOOLEAN, array_persons : BOOLEAN]
    \cup [kind : {"bad"}]

\* a file is named by its content
Docs == SeqsUpTo(Sections, MaxDocLen) \ {<<>>}

\* GSFamilyTreeDocumentINI.__init__ up to the first bad header: the fields it
\* appends to EXTENDED_FIELDS, the persons it collects, and whether it raised
parse(doc) ==
    LET loop[k \in 0..Len(doc)] ==
            IF k = 0 THEN [fields |-> <<>>, persons |-> <<>>, raised |-> FALSE]
            ELSE LET prev == loop[k - 1]
                     sec  == doc[k]
                 IN  IF prev.raised THEN prev
                     ELSE IF sec.kind = "person"
                     THEN [prev EXCEPT !.persons =
                              Append(@, [id |-> sec.id, parents |-> sec.parents,
                                         ext |-> sec.ext])]
                     ELSE IF sec.kind = "field"
                     THEN [prev EXCEPT !.fields =
                              Append(@, [name |-> sec.name,
                                         show_in_tree |-> sec.show_in_tree,
                                         array_persons |-> sec.array_persons])]
                     ELSE [prev EXCEPT !.raised = TRUE]
    IN  loop[Len(doc)]

Return(msg) == [msg |-> msg]

\* the body of CLICommands.open for the file name `name` (<<>> is None, for
\* which resolve_globs raises): the try block and the except block
open_file(name, result) ==
    IF name = <<>>
    THEN /\ FILENAME' = <<>>
         /\ ret' = IF result THEN Return("Could not open file") ELSE Return("None")
         /\ UNCHANGED <<PERSONS, EXTENDED_FIELDS, CLI_file>>
    ELSE LET p == parse(name[1])
         IN  /\ EXTENDED_FIELDS' = EXTENDED_FIELDS \o p.fields
             /\ IF p.raised
                THEN /\ FILENAME' = <<>>
                     /\ ret' = IF result THEN Return("Could not open file")
                               ELSE Return("None")
                     /\ UNCHANGED <<PERSONS, CLI_file>>
                ELSE /\ FILENAME' = name
                     /\ PERSONS' = PERSONS \o p.persons
                     /\ CLI_file' = "Document"
                     /\ ret' = Return("None")

\* CLICommands.open([file])
Open(doc) ==
    /\ Len(PERSONS) + Len(parse(doc).persons) <= MaxLoaded
    /\ Len(EXTENDED_FIELDS) + Len(parse(doc).fields) <= Len(DefaultFields) + MaxFields
    /\ open_file(<<doc>>, TRUE)
    /\ UNCHANGED <<ASCII, OPTIONS, state_data, state_name, self, res, string, length>>

\* CLICommands.open([file]) for a file that does not exist
OpenMissing ==
    /\ FILENAME' = <<>>
    /\ ret' = Return("Could not open file")
    /\ UNCHANGED <<PERSONS, EXTENDED_FIELDS, CLI_file, ASCII, OPTIONS,
                   state_data, state_name, self, res, string, length>>

\* CLICommands.close([]): with a file open, the read of CLI.file.filename
\* raises AttributeError (no document has that attribute) before anything is
\* reset
Close ==
    /\ ret' = IF CLI_file = "None" THEN Return("File is not open.")
              ELSE Return(NoFilenameAttr)
    /\ UNCHANGED <<PERSONS, EXTENDED_FIELDS, CLI_file, FILENAME, ASCII, OPTIONS,
                   state_data, state_name, self, res, string, length>>

\* reload with a close([]) that works: the store is cleared and the file
\* is closed, then open([FILENAME]) loads the file again
Reload_closing ==
    /\ IF FILENAME = <<>>
       THEN /\ PERSONS' = <<>>
            /\ CLI_file' = "None"
            /\ ret' = Return("None")
            /\ UNCHANGED <<EXTENDED_FIELDS, FILENAME>>
       ELSE LET p == parse(FILENAME[1])
            IN  /\ EXTENDED_FIELDS' = EXTENDED_FIELDS \o p.fields
                /\ PERSONS' = IF p.raised THEN <<>> ELSE p.persons
                /\ CLI_file' = IF p.raised THEN "None" ELSE "Document"
                /\ FILENAME' = IF p.raised THEN <<>> ELSE FILENAME
                /\ ret' = Return("None")
    /\ UNCHANGED <<ASCII, OPTIONS, state_data, state_name, self, res, string, length>>

\* CLICommands.reload([]): close([]) and then open([FILENAME]); the
\* exception of close leaves reload before open is called, and its traceback
\* names reload
Reload ==
    /\ IF CLI_file = "None"
       THEN open_file(FILENAME, FALSE)
       ELSE /\ ret' = [msg |-> NoFilenameAttr, from |-> "reload"]
            /\ UNCHANGED <<PERSONS, EXTENDED_FIELDS, CLI_file, FILENAME>>
    /\ UNCHANGED <<ASCII, OPTIONS, state_data, state_name, self, res, string, length>>

\* push_cli_data(name, args, data)
push_cli_data(name, args, data) ==
    /\ state_data' = data
    /\ state_name' = <<name>> \o args

\* `return "Could not find person with ID %d"`: nothing is built or pushed
not_found(id) ==
    /\ ret' = [msg |-> "Could not find person with ID", id |-> id]
    /\ UNCHANGED <<state_data, state_name>>

\* the rest of a rendering command: the text is pushed, unless the rendering
\* raised and the exception left the command
finish(name, args, text) ==
    IF text.kind \in Raised
    THEN /\ ret' = Return(text.kind)
         /\ UNCHANGED <<state_data, state_name>>
    ELSE /\ ret' = Return("None")
         /\ push_cli_data(name, args, text)

\* tree without the `if person is None` return: the call on None raises
TreeCmd_unchecked(opt, id) ==
    LET person == by_id(PyInt(id))
    IN  /\ IF opt \notin {"ancestor", "descendant"}
           THEN /\ ret' = Return("Bad arguments.")
                /\ UNCHANGED <<state_data, state_name>>
           ELSE IF person = None
           THEN /\ ret' = Return("AttributeError: 'NoneType' object has no attribute 'ancestor_tree'")
                /\ UNCHANGED <<state_data, state_name>>
           ELSE IF opt = "ancestor"
           THEN finish("tree", <<opt, id>>, ancestor_tree(person))
           ELSE finish("tree", <<opt, id>>, descendant_tree(person))
        /\ UNCHANGED <<PERSONS, EXTENDED_FIELDS, CLI_file, FILENAME, ASCII,
                       OPTIONS, self, res, string, length>>

\* CLICommands.tree([":" + opt, id])
TreeCmd(opt, id) ==
    LET person == by_id(PyInt(id))
    IN  /\ IF opt \notin {"ancestor", "descendant"}
           THEN /\ ret' = Return("Bad arguments.")
                /\ UNCHANGED <<state_data, state_name>>
           ELSE IF person = None THEN not_found(id)
           ELSE IF opt = "ancestor"
           THEN finish("tree", <<opt, id>>, ancestor_tree(person))
           ELSE finish("tree", <<opt, id>>, descendant_tree(person))
        /\ UNCHANGED <<PERSONS, EXTENDED_FIELDS, CLI_file, FILENAME, ASCII,
                       OPTIONS, self, res, string, length>>

\* CLICommands.profile([id])
ProfileCmd(id) ==
    LET person == by_id(PyInt(id))
    IN  /\ IF person = None THEN not_found(id)
           ELSE finish("profile", <<id>>, profile(person))
        /\ UNCHANGED <<PERSONS, EXTENDED_FIELDS, CLI_file, FILENAME, ASCII,
                       OPTIONS, self, res, string, length>>

\* change_characters without the calls of setup_options(): the flag is set
\* and OPTIONS keeps the glyphs it had
ChangeCharacters_no_setup(opt) ==
    /\ IF opt = "ascii"
       THEN ASCII' = TRUE /\ ret' = Return("None")
       ELSE IF opt = "unicode"
       THEN ASCII' = FALSE /\ ret' = Return("None")
       ELSE ret' = Return("Bad arguments.") /\ UNCHANGED ASCII
    /\ UNCHANGED <<PERSONS, EXTENDED_FIELDS, CLI_file, FILENAME, OPTIONS,
                   state_data, state_name, self, res, string, length>>

\* CLICommands.change_characters([":" + opt])
ChangeCharacters(opt) ==
    /\ IF opt = "ascii"
       THEN ASCII' = TRUE /\ OPTIONS' = LineDrawing(TRUE) /\ ret' = Return("None")
       ELSE IF opt = "unicode"
       THEN ASCII' = FALSE /\ OPTIONS' = LineDrawing(FALSE) /\ ret' = Return("None")
       ELSE ret' = Return("Bad arguments.") /\ UNCHANGED <<ASCII, OPTIONS>>
    /\ UNCHANGED <<PERSONS, EXTENDED_FIELDS, CLI_file, FILENAME,
                   state_data, state_name, self, res, string, length>>

Init ==
    /\ PERSONS = <<>>
    /\ EXTENDED_FIELDS = DefaultFields
    /\ FreshCLI
    /\ self = None
    /\ res = NoResult
    /\ string = <<>>
    /\ length = None

Next ==
    \/ \E doc \in Docs : Open(doc)
    \/ OpenMissing
    \/ Close
    \/ Reload
    \/ \E opt \in {"ancestor", "descendant", "sideways"}, id \in 0..MaxFileId + 1 :
          TreeCmd(opt, id)
    \/ \E id \in 0..MaxFileId + 1 : ProfileCmd(id)
    \/ \E opt \in {"ascii", "unicode", "sideways"} : ChangeCharacters(opt)

Spec == Init /\ [][Next]_vars

-----------------------------------------------------------------------------
(* Rendering and glyph toggles on a loaded file *)

\* the files of this part: up to MaxStore person sections with different
\* ids, whose parents are other persons, each listed once
FamilyFiles ==
    {s \in Stores :
        /\ \A i, j \in 1..Len(s) : s[i].id = s[j].id => i = j
        /\ \A i \in 1..Len(s) :
              /\ s[i].id \notin Range(s[i].parents)
              /\ \A a, b \in 1..Len(s[i].parents) :
                    s[i].parents[a] = s[i].parents[b] => a = b}

\* the session right after `open` of such a file
InitGlyph ==
    /\ PERSONS \in FamilyFiles
    /\ EXTENDED_FIELDS = DefaultFields
    /\ CLI_file = "Document"
    /\ FILENAME = <<[k \in 1..Len(PERSONS) |->
                       [kind |-> "person", id |-> PERSONS[k].id,
                        parents |-> PERSONS[k].parents, ext |-> <<>>]]>>
    /\ ASCII = FALSE
    /\ OPTIONS = LineDrawing(FALSE)
    /\ state_data = NoData
    /\ state_name = <<>>
    /\ ret = Return("None")
    /\ self = None
    /\ res = NoResult
    /\ string = <<>>
    /\ length = None

NextGlyph ==
    \/ \E opt \in {"ascii", "unicode", "sideways"} : ChangeCharacters(opt)
    \/ \E opt \in {"ancestor", "descendant", "sideways"}, id \in 0..MaxId :
          TreeCmd(opt, id)

SpecGlyph == InitGlyph /\ [][NextGlyph]_vars

-----------------------------------------------------------------------------
(* Properties *)

\* no two records of the store have the same id
UniqueIds == \A i, j \in Positions : PERSONS[i].id = PERSONS[j].id => i = j

NoRepeats(seq) == \A i, j \in 1..Len(seq) : seq[i] = seq[j] => i = j

\* the store the data model describes: unique ids, and no record that lists
\* its own id or lists an id twice
WellFormed ==
    /\ UniqueIds
    /\ \A i \in Positions :
          /\ NoRepeats(PERSONS[i].parents)
          /\ PERSONS[i].id \notin Range(PERSONS[i].parents)

\* C1: B is a sibling of A iff they are different persons, A has parents, and
\* the parent ids of A and of B are equal as sets, whatever their order.
C1_SiblingsByParentSet ==
    (/\ res.op = "get_siblings"
     /\ UniqueIds
     /\ \A i \in Positions : NoRepeats(PERSONS[i].parents)) =>
        \A b \in Positions :
            b \in Range(res.out) <=>
                /\ b # self
                /\ PERSONS[self].parents # <<>>
                /\ Range(PERSONS[b].parents) = Range(PERSONS[self].parents)

\* C2: spouses(A) never contains A and contains no person twice, also for
\* the person with id 0 and for children recorded with a single parent.
C2_SpousesExcludeSelf ==
    (res.op = "get_spouses" /\ WellFormed) =>
        /\ self \notin Range(res.out)
        /\ NoRepeats(res.out)

\* the parent ids of child c other than the id of person a
OtherParentIds(c, a) == Range(PERSONS[c].parents) \ {PERSONS[a].id}

\* C3: B is a spouse of A iff some child of A has exactly one parent id other
\* than A's id and that id resolves to B; a child with no other parent or
\* with more than one contributes no spouse.
C3_SpouseIffSoleOtherParent ==
    (res.op = "get_spouses" /\ WellFormed) =>
        \A b \in Positions :
            b \in Range(res.out) <=>
                \E c \in Range(get_children(self)) :
                    /\ Cardinality(OtherParentIds(c, self)) = 1
                    /\ \A tid \in OtherParentIds(c, self) : by_id(PyInt(tid)) = b

\* C4 as claimed: parents(person) lists the records of the resolvable ids of
\* person.parents, in the order the ids are listed, one entry per listed id.
C4_ParentsInListedOrder ==
    (res.op = "get_parents" /\ WellFormed) =>
        res.out = get_parents_as_listed(self)

\* C4 as amended: parents(person) lists, in store order and each once, the
\* records whose id occurs in person.parents; an id that is not in the store
\* contributes nothing.
C4_ParentsInStoreOrder ==
    res.op = "get_parents" =>
        /\ \A k \in 1..(Len(res.out) - 1) : res.out[k] < res.out[k + 1]
        /\ Range(res.out) =
              {i \in Positions : PERSONS[i].id \in Range(PERSONS[self].parents)}

\* a stored pair of parents is returned in the order opposite to the listed one
C4_Witness ==
    /\ res.op = "get_parents"
    /\ WellFormed
    /\ Len(res.out) = 2
    /\ Len(PERSONS[self].parents) = 2
    /\ PERSONS[res.out[1]].id = PERSONS[self].parents[2]
    /\ PERSONS[res.out[2]].id = PERSONS[self].parents[1]

\* the ids of the records a resolver returns, in its order
IdsOf(persons) == [k \in 1..Len(persons) |-> PERSONS[persons[k]].id]

KeysOf(dict) == [k \in 1..Len(dict) |-> dict[k].key]

\* every node of the dict has one child per record the mode's resolver
\* returns for the node's person, in the resolver's order
RECURSIVE NodesFollow(_, _)
NodesFollow(dict, fc) ==
    \A k \in 1..Len(dict) :
        LET person == by_id(PyInt(dict[k].key))
        IN  /\ KeysOf(dict[k].sub) =
                  IdsOf(IF fc THEN get_children(person) ELSE get_parents(person))
            /\ NodesFollow(dict[k].sub, fc)

\* the child nodes under the root of the tree, against the records the mode's
\* resolver returns for the root person
RootFollows(dict, fc) ==
    KeysOf(dict[1].sub) =
        IdsOf(IF fc THEN get_children(self) ELSE get_parents(self))

\* C5: the ancestor tree has under each node one child node per person that
\* parents() returns for the node's person, the descendant tree one per
\* person that children() returns, in the resolver's order, a leaf where the
\* resolver returns nothing.  The root's person is the receiver; below the
\* root a node names its person by id, which identifies the person when ids
\* are unique.
C5_TreeFollowsResolver ==
    /\ (res.op = "ancestor_tree" /\ res.out.kind = "tree") =>
           /\ RootFollows(res.out.tree, FALSE)
           /\ UniqueIds => NodesFollow(res.out.tree, FALSE)
    /\ (res.op = "descendant_tree" /\ res.out.kind = "tree") =>
           /\ RootFollows(res.out.tree, TRUE)
           /\ UniqueIds => NodesFollow(res.out.tree, TRUE)

\* a record lists its own id as a parent, or more than two parent ids
Malformed ==
    \E i \in Positions :
        \/ PERSONS[i].id \in Range(PERSONS[i].parents)
        \/ Len(PERSONS[i].parents) > 2

\* C8: in a store with a malformed record every core operation completes and
\* returns a result (parents, children, siblings and spouses are total; the
\* tree renderings return a text).
C8_MalformedStoreCompletes ==
    (Malformed /\ UniqueIds /\ res.op \in {"ancestor_tree", "descendant_tree"}) =>
        res.out.kind = "tree"

\* the width the claim gives the k-th character of s
ClaimedWidth(s, k) ==
    IF \E j \in 1..k : s[j] = "ESC" /\ \A m \in (j + 1)..(k - 1) : ~isalpha(s[m])
    THEN 0
    ELSE IF s[k] = "TAB" THEN 8
    ELSE IF s[k] \in {"CR", "LF", "FF", "VT"} \/ ~isprintable(s[k]) THEN 0
    ELSE 1

ClaimedLength(s) ==
    LET sum[k \in 0..Len(s)] ==
            IF k = 0 THEN 0 ELSE sum[k - 1] + ClaimedWidth(s, k)
    IN  sum[Len(s)]

\* C10: visible_length is the sum over the characters of 0 inside an escape
\* sequence, 0 for a line control or another non-printable character, 8 for
\* a horizontal tab and 1 for any other printable character.
C10_VisibleLength == length # None => length = ClaimedLength(string)

NotFound(id) == [msg |-> "Could not find person with ID", id |-> id]

\* C6: a tree or profile request for an id that is not in the store returns
\* the "person not found" result and leaves the store and the last result
\* (the data and the name kept for printing) unchanged.
C6_UnknownPersonRefused ==
    [][\A id \in 0..(MaxFileId + 1) :
          (/\ by_id(PyInt(id)) = None
           /\ \/ TreeCmd("ancestor", id)
              \/ TreeCmd("descendant", id)
              \/ ProfileCmd(id))
          => /\ ret' = NotFound(id)
             /\ UNCHANGED <<PERSONS, EXTENDED_FIELDS, state_data, state_name>>]_vars

\* a request was refused while a store is loaded and an earlier result is kept
C6_Witness ==
    /\ ret.msg = "Could not find person with ID"
    /\ PERSONS # <<>>
    /\ state_data.kind = "tree"

\* the registered person-list fields that record p has
PersonLists(p) ==
    SelectSeq(all_fields_for_person(p), LAMBDA f : f.array_persons)

\* the ids of the records that the tokens of field f of record p resolve to
ResolvedIds(f, p) ==
    LET toks == extract_split(f, p)
        loop[k \in 0..Len(toks)] ==
            IF k = 0 THEN <<>>
            ELSE IF by_id(PyInt(toks[k])) = None THEN loop[k - 1]
            ELSE Append(loop[k - 1], PERSONS[by_id(PyInt(toks[k]))].id)
    IN  loop[Len(toks)]

\* C7: rendering a person that has a person-list field never fails, in the
\* tree (for a field shown in the tree) and in the profile: each listed id
\* that resolves yields that record, each one that does not yields nothing.
C7_PersonListNeverFails ==
    [][\A id \in 0..(MaxFileId + 1) :
          LET p == by_id(PyInt(id))
          IN  (p # None /\ UniqueIds /\ PersonLists(p) # <<>>) =>
                /\ ProfileCmd(id) =>
                      /\ ret' = Return("None")
                      /\ state_data'.kind = "profile"
                      /\ \A k \in 1..Len(PersonLists(p)) :
                            IdsOf(SelectSeq(state_data'.lists[k].persons,
                                            LAMBDA q : q # None))
                                = ResolvedIds(PersonLists(p)[k], p)
                /\ (TreeCmd("ancestor", id) \/ TreeCmd("descendant", id)) =>
                      ret' = Return("None")]_vars

\* C9: after any sequence of open, close and reload commands no two records
\* of the person store have the same id.
C9_IdsStayUnique == UniqueIds

\* the query was a tree rendering and it returned the text of a tree
Rendered == res.op \in {"ancestor_tree", "descendant_tree"} /\ res.out.kind = "tree"

\* the depth of a printed node: the number of segments of its prefix
Depth(line) == Len(line.header)

\* C11: in every rendered tree the node at depth 0 has the highlight
\* background and every node at depth 1 or more has the default background.
C11_RootHighlighted ==
    Rendered =>
        \A k \in 1..Len(res.out.lines) :
            res.out.lines[k].info.bg =
                IF Depth(res.out.lines[k]) = 0 THEN "BLUE" ELSE "DEFAULT"

\* a tree in which one person is a highlighted root and another person is
\* printed below it, at depth 2, with the default background
C11_Witness ==
    /\ Rendered
    /\ UniqueIds
    /\ res.out.lines[1].info.bg = "BLUE"
    /\ \E k \in 2..Len(res.out.lines) :
          /\ Depth(res.out.lines[k]) = 2
          /\ res.out.lines[k].info.bg = "DEFAULT"

\* the two glyph sets as the claim names them: the ASCII one and the
\* box-drawing one
ClaimedGlyphs(ascii) ==
    IF ascii
    THEN [connectors |-> {"[0060]--", "|--"}, segments |-> {"|  ", "   "}]
    ELSE [connectors |-> {"[2514][2500][2500]", "[251C][2500][2500]"},
          segments   |-> {"[2502]  ", "   "}]

\* every connector and every prefix segment of the lines is of the set
UsesGlyphs(lines, ascii) ==
    \A k \in 1..Len(lines) :
        /\ lines[k].conn \in ClaimedGlyphs(ascii).connectors
        /\ Range(lines[k].header) \subseteq ClaimedGlyphs(ascii).segments
        /\ Range(lines[k].cont) \subseteq ClaimedGlyphs(ascii).segments

\* C12: a toggle to ASCII (to Unicode) makes ASCII (box drawing) the active
\* glyph set, a toggle with bad arguments and every other command leave the
\* active set as it is, and every render takes all its connectors from the
\* active set.
C12_GlyphSetFollowsToggle ==
    [][/\ ChangeCharacters("ascii") => ASCII'
       /\ ChangeCharacters("unicode") => ~ASCII'
       /\ ChangeCharacters("sideways") => UNCHANGED <<ASCII, OPTIONS>>
       /\ ~(ChangeCharacters("ascii") \/ ChangeCharacters("unicode")) =>
              UNCHANGED <<ASCII, OPTIONS>>
       /\ \A opt \in {"ancestor", "descendant"}, id \in 0..MaxId :
              (/\ by_id(PyInt(id)) # None
               /\ ret' = Return("None")
               /\ state_name' = <<"tree", opt, id>>
               /\ TreeCmd(opt, id)) =>
                  /\ state_data'.kind = "tree"
                  /\ UsesGlyphs(state_data'.lines, ASCII)]_vars

\* after a toggle to ASCII a tree of three lines was rendered, with a tee
\* and a pipe of the ASCII set
C12_Witness ==
    /\ ASCII
    /\ state_data.kind = "tree"
    /\ \E k \in 1..Len(state_data.lines) :
          /\ state_data.lines[k].conn = "|--"
          /\ "|  " \in Range(state_data.lines[k].cont)

\* C13: the info block of a node has the spouse lines of its person exactly
\* when the node is the root of the tree or the tree is a descendant tree;
\* the root of an ancestor tree shows its spouses, the nodes below it do not.
\* The stores taken are those where every person has no or two parents, so
\* that the spouses of a person are the other parents of its children.
C13_SpousesOnRootOrDescendants ==
    (/\ Rendered
     /\ WellFormed
     /\ \A i \in Positions : Len(PERSONS[i].parents) \in {0, 2}) =>
        \A k \in 1..Len(res.out.lines) :
            LET node   == res.out.lines[k]
                person == by_id(PyInt(node.info.id))
            IN  node.info.spouses =
                    IF Depth(node) = 0 \/ res.op = "descendant_tree"
                    THEN IdsOf(get_spouses(person))
                    ELSE <<>>

\* the nodes of a tree in the order of the walk, each with the id of its
\* person and, for the node and each of its ancestors from the root down,
\* whether it is the last of its siblings
RECURSIVE Walk(_, _)
Walk(dict, lasts) ==
    LET loop[k \in 0..Len(dict)] ==
            IF k = 0 THEN <<>>
            ELSE loop[k - 1]
                 \o <<[id |-> dict[k].key, lasts |-> Append(lasts, k = Len(dict))]>>
                 \o Walk(dict[k].sub, Append(lasts, k = Len(dict)))
    IN  loop[Len(dict)]

\* line is the line the claim gives for node n with the glyphs g: a prefix of
\* one segment per ancestor, pipe when the ancestor is not last; elbow when
\* the node is last and tee otherwise; the block indented by the prefix
\* extended for the node itself
ClaimedLine(line, n, g) ==
    LET d      == Len(n.lasts) - 1
        seg(j) == IF n.lasts[j] THEN g.BLANK ELSE g.PIPE
    IN  /\ line.info.id = n.id
        /\ line.header = [j \in 1..d |-> seg(j)]
        /\ line.conn = IF n.lasts[d + 1] THEN g.ELBOW ELSE g.TEE
        /\ line.cont = [j \in 1..(d + 1) |-> seg(j)]

\* C14: the walk emits every node as prefix + elbow when it is the last of
\* its siblings (the root counts as last) and prefix + tee otherwise, indents
\* the rest of its block by prefix + blank or prefix + pipe, and renders its
\* children with that extended prefix: a node at depth d has d segments, the
\* k-th a pipe exactly when its ancestor at depth k-1 is not a last sibling.
C14_WalkPrefixes ==
    state_data.kind = "tree" =>
        \E ascii \in BOOLEAN :
            LET nodes == Walk(state_data.tree, <<>>)
            IN  /\ Len(state_data.lines) = Len(nodes)
                /\ \A k \in 1..Len(nodes) :
                      ClaimedLine(state_data.lines[k], nodes[k], LineDrawing(ascii))

\* a rendered tree with a node at depth 2 under a parent that is not the last
\* of its siblings: its second segment is a pipe, and a tee was emitted
C14_Witness ==
    /\ state_data.kind = "tree"
    /\ \E k \in 1..Len(state_data.lines) :
          /\ Len(state_data.lines[k].header) = 2
          /\ state_data.lines[k].header[2] \in {"[2502]  ", "|  "}
    /\ \E k \in 1..Len(state_data.lines) :
          state_data.lines[k].conn \in {"[251C][2500][2500]", "|--"}

\* the records one step from record p in the relation of the mode
Related(fc, p) == Range(IF fc THEN get_children(p) ELSE get_parents(p))

\* the records within n more steps of the records of S
RECURSIVE Within(_, _, _)
Within(fc, S, n) ==
    IF n = 0 THEN S
    ELSE Within(fc, S \cup UNION {Related(fc, q) : q \in S}, n - 1)

\* the records reachable from p in one step or more
ReachableFrom(fc, p) == Within(fc, Related(fc, p), Len(PERSONS))

\* the root or a record reachable from it is reachable from itself
CycleReachable(fc, root) ==
    \E q \in {root} \cup ReachableFrom(fc, root) : q \in ReachableFrom(fc, q)

\* C15: the build of an ancestor (descendant) tree ends with a finite tree
\* exactly when no person reachable from the root through parents (children)
\* is reachable from itself; with such a cycle, a record that is its own
\* parent included, nothing in the code stops the recursion and no tree is
\* returned: the call ends when the interpreter raises RecursionError.
C15_TerminatesIffNoCycle ==
    /\ res.op = "ancestor_tree" =>
           /\ res.out.kind = "tree" <=> ~CycleReachable(FALSE, self)
           /\ res.out.kind \in {"tree", "RecursionError"}
    /\ res.op = "descendant_tree" =>
           /\ res.out.kind = "tree" <=> ~CycleReachable(TRUE, self)
           /\ res.out.kind \in {"tree", "RecursionError"}

\* the build did not end for a root that is not itself on the cycle it
\* reaches, in a store without a self-parent
C15_Witness ==
    /\ res.op = "ancestor_tree"
    /\ res.out.kind = "RecursionError"
    /\ WellFormed
    /\ self \notin ReachableFrom(FALSE, self)

====
